---- MODULE Spec2Model ----
(***************************************************************************)
(* The RackHD docker-machine driver (rackhd.go) as a state machine.        *)
(*                                                                         *)
(* The state is the Driver struct.  Every exported method is one action;   *)
(* what a method is given (flags, the inventory answer, the outcome of     *)
(* each TCP dial, of key generation and of each SSH session) is drawn      *)
(* from small sets.  The variable `call' holds what the last method was    *)
(* given and what it did and returned, so that properties of a call can    *)
(* be stated about the state it leaves.                                    *)
(*                                                                         *)
(* Go strings that the code builds (fmt.Sprintf, +) are sequences of       *)
(* pieces; the empty string is the empty sequence.  A Go error is the      *)
(* sequence of pieces of its text; the nil error is the empty sequence.    *)
(***************************************************************************)
EXTENDS Integers, Sequences, FiniteSets

VARIABLES
    Endpoint,     \* Driver.Endpoint
    NodeID,       \* Driver.NodeID
    SSHUser,      \* Driver.SSHUser (shadows BaseDriver.SSHUser)
    SSHPassword,  \* Driver.SSHPassword
    SSHPort,      \* Driver.SSHPort (shadows BaseDriver.SSHPort)
    SSHKey,       \* Driver.SSHKey
    Transport,    \* Driver.Transport
    client,       \* Driver.client: the lazily built API client
    IPAddress,    \* BaseDriver.IPAddress: the resolved node IP
    configured,   \* history: SetConfigFromFlags has returned nil at least once
    resolved,     \* history: the candidate that connected in the latest Create
                  \* in which one did ("" before the first)
    call          \* history: the last method call

config == <<Endpoint, NodeID, SSHUser, SSHPassword, SSHPort, SSHKey, Transport>>
driver == <<Endpoint, NodeID, SSHUser, SSHPassword, SSHPort, SSHKey, Transport,
            client, IPAddress>>
vars == <<Endpoint, NodeID, SSHUser, SSHPassword, SSHPort, SSHKey, Transport,
          client, IPAddress, configured, resolved, call>>

---------------------------------------------------------------------------
(* Bounds and input domains *)

\* Longest inventory payload (number of records) a lookup returns.
MaxPayload == 3

defaultEndpoint == "localhost:8080"
defaultTransport == "http"
defaultSSHUser == "root"
defaultSSHPassword == "root"
defaultSSHPort == 22
HTTPSPort == 443

\* The addresses an inventory record may carry.
IPs == {"10.0.0.5", "10.0.0.6"}

\* An inventory record (one element of resp.Payload): a JSON object, given as
\* its set of <<key, value>> attributes.  Every element is taken to be a JSON
\* object with string values, as the lookups API returns them.
Records ==
    {{<<"macAddress", "52:54:00:aa:bb:cc">>}}
    \cup {{<<"macAddress", "52:54:00:aa:bb:cc">>, <<"ipAddress", ip>>} : ip \in IPs}

RECURSIVE SeqsUpTo(_, _)
SeqsUpTo(S, n) ==
    IF n = 0 THEN {<<>>}
    ELSE LET shorter == SeqsUpTo(S, n - 1)
         IN shorter \cup {Append(s, x) : s \in {t \in shorter : Len(t) = n - 1}, x \in S}

Payloads == SeqsUpTo(Records, MaxPayload)

\* What the command line hands to SetConfigFromFlags.
FlagSets ==
    [endpoint : {"rackhd:9090"},
     nodeID : {"", "node-1"},
     sshUser : {"", "docker"},
     sshPassword : {"secret"},
     sshPort : {defaultSSHPort, HTTPSPort},
     transport : {"http", "https"}]

NoFlags ==
    [endpoint |-> "", nodeID |-> "", sshUser |-> "", sshPassword |-> "",
     sshPort |-> 0, transport |-> ""]

\* Errors of the collaborators, passed through by the driver unchanged.  The
\* SSH library's errors are those of Dial, NewSession and Run: Dial and
\* NewSession are not given the command, and Run reports the exit status.
Nil == <<>>
LookupErr == <<"GetLookups: connection refused">>
ConfigErr == <<"GetConfig: connection refused">>
GenerateKeyErr == <<"GenerateSSHKey: key already exists">>
ReadFileErr == <<"ReadFile: no such file">>
SSHDialErr == <<"ssh: handshake failed">>
SSHSessionErr == <<"ssh: rejected: administratively prohibited">>
SSHRunErr == <<"Process exited with status 1">>

\* The public key file as ssh.GenerateSSHKey writes it.
PublicKeyFile == <<"ssh-rsa AAAAB3Nza", "\n">>

\* What createSSHKey meets: key generation fails, reading the public key back
\* fails, or both succeed and the file holds `text'.
KeyOutcomes ==
    {[generate |-> GenerateKeyErr, read |-> Nil, text |-> <<>>],
     [generate |-> Nil, read |-> ReadFileErr, text |-> <<>>],
     [generate |-> Nil, read |-> Nil, text |-> PublicKeyFile]}

\* What the SSH sessions of one Create meet: none fails (failAt = 0), or the
\* session of command number failAt fails at dialling, at opening the session
\* or at running the command.
SSHScripts ==
    {[failAt |-> 0, dial |-> Nil, session |-> Nil, run |-> Nil]}
    \cup {[failAt |-> k, dial |-> SSHDialErr, session |-> Nil, run |-> Nil] : k \in 1..4}
    \cup {[failAt |-> k, dial |-> Nil, session |-> SSHSessionErr, run |-> Nil] : k \in 1..4}
    \cup {[failAt |-> k, dial |-> Nil, session |-> Nil, run |-> SSHRunErr] : k \in 1..4}

---------------------------------------------------------------------------
(* Strings *)

\* A Go string held in a field, as the pieces of a built string.
Str(s) == IF s = "" THEN <<>> ELSE <<s>>

Whitespace == {" ", "\t", "\n", "\r"}

RECURSIVE TrimLeft(_)
TrimLeft(s) ==
    IF s # <<>> /\ Head(s) \in Whitespace THEN TrimLeft(Tail(s)) ELSE s

RECURSIVE TrimRight(_)
TrimRight(s) ==
    IF s # <<>> /\ s[Len(s)] \in Whitespace
    THEN TrimRight(SubSeq(s, 1, Len(s) - 1))
    ELSE s

\* strings.TrimSpace
TrimSpace(s) == TrimRight(TrimLeft(s))

---------------------------------------------------------------------------
(* The last call *)

NoCall(op) ==
    [op |-> op,               \* the method
     flags |-> NoFlags,       \* SetConfigFromFlags: the flags given
     val |-> <<>>,            \* the string returned, if any
     err |-> Nil,             \* the error returned
     lookedUp |-> FALSE,      \* Create: GetLookups returned a payload
     withIP |-> 0,            \* Create: records of the payload with an ipAddress
     ipAddSlice |-> <<>>,     \* Create: the candidate list
     probed |-> <<>>,         \* Create: the <<ip, port>> dialled, in order
     results |-> <<>>,        \* Create: whether each of those dials connected
     keygen |-> FALSE,        \* Create: createSSHKey was called
     cmds |-> <<>>,           \* Create: the remote commands started, in order
     cmdErrs |-> <<>>]        \* Create: the error of each of those commands

---------------------------------------------------------------------------
(* Create: the inventory answer to the candidate list *)

\* The values of a record's ipAddress attribute (at most one: keys are unique).
IPAttrs(rec) == {a[2] : a \in {b \in rec : b[1] = "ipAddress"}}

\* The loop over resp.Payload: every record gives the value of its ipAddress
\* key, if it has one, in payload order, duplicates kept.
RECURSIVE ExtractIPs(_)
ExtractIPs(payload) ==
    IF payload = <<>> THEN <<>>
    ELSE LET rec == Head(payload)
             found == IF IPAttrs(rec) # {}
                      THEN <<CHOOSE ip \in IPAttrs(rec) : TRUE>>
                      ELSE <<>>
         IN found \o ExtractIPs(Tail(payload))

\* Variant: the emptiness test never fires.
NoAddressesNever(ipAddSlice) == Len(ipAddSlice) < 0

\* if len(ipAddSlice) <= 0
NoAddresses(ipAddSlice) == Len(ipAddSlice) <= 0

ErrNoAddresses ==
    <<"No IP addresses are associated with the Node ID specified. Error: ",
      "%!s(<nil>)">>

ErrUnreachable ==
    <<"No IP addresses are accessible on this network to the Node ID specified. Error: ",
      "%!s(<nil>)">>

---------------------------------------------------------------------------
(* Create: the reachability probe *)

\* One pass of the loop body for candidate number i and then the rest of the
\* loop.  st.ip is d.IPAddress; net.DialTimeout connects to the addresses in
\* `reachable' and to no other.
RECURSIVE ProbeFrom(_, _, _, _, _)
ProbeFrom(ipAddSlice, reachable, port, i, st) ==
    IF i > Len(ipAddSlice) THEN st
    ELSE LET connected == ipAddSlice[i] \in reachable
             tried == [st EXCEPT !.probed = Append(@, <<ipAddSlice[i], port>>),
                                 !.results = Append(@, connected)]
         IN IF connected
            THEN [tried EXCEPT !.ip = ipAddSlice[i]]     \* then break
            ELSE ProbeFrom(ipAddSlice, reachable, port, i + 1, tried)

\* Variant: the loop without its break; the last candidate to connect wins.
RECURSIVE ProbeAllFrom(_, _, _, _, _)
ProbeAllFrom(ipAddSlice, reachable, port, i, st) ==
    IF i > Len(ipAddSlice) THEN st
    ELSE LET connected == ipAddSlice[i] \in reachable
             tried == [st EXCEPT !.probed = Append(@, <<ipAddSlice[i], port>>),
                                 !.results = Append(@, connected)]
         IN ProbeAllFrom(ipAddSlice, reachable, port, i + 1,
                         IF connected THEN [tried EXCEPT !.ip = ipAddSlice[i]] ELSE tried)

ProbeAll(ipAddSlice, reachable, port, ip) ==
    ProbeAllFrom(ipAddSlice, reachable, port, 1, [ip |-> ip, probed |-> <<>>, results |-> <<>>])

\* Variant: d.IPAddress is cleared before the loop.
ProbeReset(ipAddSlice, reachable, port, ip) ==
    ProbeFrom(ipAddSlice, reachable, port, 1, [ip |-> "", probed |-> <<>>, results |-> <<>>])

\* Variant: on a connection the first candidate of the list is stored, not the
\* one that connected.
ProbeFirstCandidate(ipAddSlice, reachable, port, ip) ==
    LET st == ProbeFrom(ipAddSlice, reachable, port, 1,
                        [ip |-> ip, probed |-> <<>>, results |-> <<>>])
    IN IF st.results # <<>> /\ st.results[Len(st.results)]
       THEN [st EXCEPT !.ip = ipAddSlice[1]]
       ELSE st

\* for _, ipAddy := range ipAddSlice { ... }
Probe(ipAddSlice, reachable, port, ip) ==
    ProbeFrom(ipAddSlice, reachable, port, 1, [ip |-> ip, probed |-> <<>>, results |-> <<>>])

---------------------------------------------------------------------------
(* Create: the key and the remote commands *)

\* createSSHKey: the public key text and the error.
createSSHKey(kg) ==
    IF kg.generate # Nil THEN [key |-> <<>>, err |-> kg.generate]
    ELSE IF kg.read # Nil THEN [key |-> <<>>, err |-> kg.read]
    ELSE [key |-> kg.text, err |-> Nil]

\* The four command lines, in the order Create issues them.
Commands(user, key) ==
    << <<"mkdir -p /home/">> \o Str(user) \o <<"/.ssh">>,
       <<"echo '">> \o key \o <<"' > /home/">> \o Str(user) \o <<"/.ssh/authorized_keys">>,
       <<"chmod 700 /home/">> \o Str(user) \o <<"/.ssh">>,
       <<"chmod 600 /home/">> \o Str(user) \o <<"/.ssh/authorized_keys">> >>

\* executeSSHCommand for command number k: the first of dial, session and run
\* to fail gives the error, returned as it is.
executeSSHCommand(k, script) ==
    IF script.failAt # k THEN Nil
    ELSE IF script.dial # Nil THEN script.dial
    ELSE IF script.session # Nil THEN script.session
    ELSE script.run

\* The chain of `if err := executeSSHCommand(...); err != nil { return err }'.
RECURSIVE RunFrom(_, _, _, _)
RunFrom(commands, script, k, st) ==
    IF k > Len(commands) THEN st
    ELSE LET e == executeSSHCommand(k, script)
             ran == [st EXCEPT !.cmds = Append(@, commands[k]),
                               !.cmdErrs = Append(@, e)]
         IN IF e # Nil
            THEN [ran EXCEPT !.err = e]                   \* return err
            ELSE RunFrom(commands, script, k + 1, ran)

\* Variant: a failed command does not end the chain; the first error is kept.
RECURSIVE RunAllFrom(_, _, _, _)
RunAllFrom(commands, script, k, st) ==
    IF k > Len(commands) THEN st
    ELSE LET e == executeSSHCommand(k, script)
             ran == [st EXCEPT !.cmds = Append(@, commands[k]),
                               !.cmdErrs = Append(@, e)]
         IN RunAllFrom(commands, script, k + 1,
                       IF e # Nil /\ st.err = Nil THEN [ran EXCEPT !.err = e] ELSE ran)

RunCommandsNoAbort(commands, script) ==
    RunAllFrom(commands, script, 1, [cmds |-> <<>>, cmdErrs |-> <<>>, err |-> Nil])

RunCommands(commands, script) ==
    RunFrom(commands, script, 1, [cmds |-> <<>>, cmdErrs |-> <<>>, err |-> Nil])

---------------------------------------------------------------------------
(* The small methods *)

\* getClient: built from Endpoint and Transport on first use, then kept.
getClient ==
    IF client = <<>> THEN <<Endpoint, Transport>> ELSE client

\* Variant: the flag is taken whatever the port.
TransportAsFlag(port, flag) == flag

\* if d.SSHPort == 443 { https } else { the flag }
TransportFor(port, flag) ==
    IF port = HTTPSPort THEN "https" ELSE flag

\* GetIP: (string, error)
GetIPResult(ip) ==
    IF ip = ""
    THEN [val |-> <<>>, err |-> <<"IP address is not set">>]
    ELSE [val |-> Str(ip), err |-> Nil]

\* Variant: the error of GetIP is dropped.
GetURLUnchecked(ip) ==
    [val |-> <<"tcp://">> \o Str(ip) \o <<":2376">>, err |-> Nil]

\* GetURL: (string, error)
GetURLResult(ip) ==
    LET r == GetIPResult(ip)
    IN IF r.err # Nil
       THEN [val |-> <<>>, err |-> r.err]
       ELSE [val |-> <<"tcp://">> \o r.val \o <<":2376">>, err |-> Nil]

\* Variant: the default is stored whatever the field holds.
SSHUsernameAlwaysDefault(user) == "root"

\* GetSSHUsername: the value d.SSHUser has when it returns.
SSHUsernameOrDefault(user) ==
    IF user = "" THEN "root" ELSE user

---------------------------------------------------------------------------
(* The driver *)

\* NewDriver.  The Driver's own SSHUser and SSHPort shadow the BaseDriver's,
\* which alone get the defaults "root" and 22; the Driver's own start at the
\* zero value.  No method of the driver reads or writes the BaseDriver's.
Init ==
    /\ Endpoint = defaultEndpoint
    /\ NodeID = ""
    /\ SSHUser = ""
    /\ SSHPassword = defaultSSHPassword
    /\ SSHPort = 0
    /\ SSHKey = <<>>
    /\ Transport = defaultTransport
    /\ client = <<>>
    /\ IPAddress = ""
    /\ configured = FALSE
    /\ resolved = ""
    /\ call = NoCall("")

\* The caller makes one call at a time: no call is outstanding.
Ready == call.op = ""

SetConfigFromFlags ==
    \E flags \in FlagSets :
        /\ Ready
        /\ Endpoint' = flags.endpoint
        /\ NodeID' = flags.nodeID
        /\ IF flags.nodeID = ""
           THEN /\ call' = [NoCall("SetConfigFromFlags") EXCEPT
                              !.flags = flags,
                              !.err = <<"rackhd driver requires the --rackhd-node-id option">>]
                /\ UNCHANGED <<SSHUser, SSHPassword, SSHPort, Transport, configured>>
           ELSE /\ SSHUser' = flags.sshUser
                /\ SSHPassword' = flags.sshPassword
                /\ SSHPort' = flags.sshPort
                /\ Transport' = TransportFor(flags.sshPort, flags.transport)
                /\ configured' = TRUE
                /\ call' = [NoCall("SetConfigFromFlags") EXCEPT !.flags = flags]
        /\ UNCHANGED <<SSHKey, client, IPAddress, resolved>>

PreCreateCheck ==
    \E reachable \in BOOLEAN :
        /\ Ready
        /\ client' = getClient
        /\ call' = [NoCall("PreCreateCheck") EXCEPT
                      !.err = IF reachable THEN Nil
                              ELSE <<"The Endpoint is not accessible. Error: ">> \o ConfigErr]
        /\ UNCHANGED <<Endpoint, NodeID, SSHUser, SSHPassword, SSHPort, SSHKey,
                       Transport, IPAddress, configured, resolved>>

\* Create, from the lookup to the last remote command.  Each failure returns
\* at once with what has been assigned so far left in place.
Create ==
    /\ Ready
    /\ client' = getClient
    /\ UNCHANGED <<Endpoint, NodeID, SSHUser, SSHPassword, SSHPort, Transport, configured>>
    /\ \/ \* GetLookups fails
          /\ call' = [NoCall("Create") EXCEPT !.err = LookupErr]
          /\ UNCHANGED <<IPAddress, SSHKey, resolved>>
       \/ \E payload \in Payloads :
            LET ipAddSlice == ExtractIPs(payload)
                looked == [NoCall("Create") EXCEPT
                             !.lookedUp = TRUE,
                             !.withIP = Cardinality({i \in 1..Len(payload) :
                                            \E a \in payload[i] : a[1] = "ipAddress"}),
                             !.ipAddSlice = ipAddSlice]
            IN IF NoAddresses(ipAddSlice)
               THEN /\ call' = [looked EXCEPT !.err = ErrNoAddresses]
                    /\ UNCHANGED <<IPAddress, SSHKey, resolved>>
               ELSE \E reachable \in SUBSET IPs :
                      LET pr == Probe(ipAddSlice, reachable, SSHPort, IPAddress)
                          probes == [looked EXCEPT !.probed = pr.probed,
                                                   !.results = pr.results]
                          connecting == {i \in 1..Len(ipAddSlice) : ipAddSlice[i] \in reachable}
                      IN /\ IPAddress' = pr.ip
                         /\ resolved' = IF connecting = {} THEN resolved
                                        ELSE ipAddSlice[CHOOSE i \in connecting :
                                                          \A j \in connecting : i <= j]
                         /\ IF pr.ip = ""
                            THEN /\ call' = [probes EXCEPT !.err = ErrUnreachable]
                                 /\ UNCHANGED SSHKey
                            ELSE \E kg \in KeyOutcomes :
                                   LET k == createSSHKey(kg)
                                   IN IF k.err # Nil
                                      THEN /\ call' = [probes EXCEPT !.keygen = TRUE,
                                                                     !.err = k.err]
                                           /\ UNCHANGED SSHKey
                                      ELSE \E script \in SSHScripts :
                                             LET key == TrimSpace(k.key)
                                                 run == RunCommands(Commands(SSHUser, key), script)
                                             IN /\ SSHKey' = key
                                                /\ call' = [probes EXCEPT
                                                              !.keygen = TRUE,
                                                              !.cmds = run.cmds,
                                                              !.cmdErrs = run.cmdErrs,
                                                              !.err = run.err]

GetSSHHostname ==
    /\ Ready
    /\ call' = [NoCall("GetSSHHostname") EXCEPT !.val = GetIPResult(IPAddress).val,
                                                !.err = GetIPResult(IPAddress).err]
    /\ UNCHANGED <<driver, configured, resolved>>

GetSSHUsername ==
    /\ Ready
    /\ SSHUser' = SSHUsernameOrDefault(SSHUser)
    /\ call' = [NoCall("GetSSHUsername") EXCEPT !.val = Str(SSHUser')]
    /\ UNCHANGED <<Endpoint, NodeID, SSHPassword, SSHPort, SSHKey, Transport,
                   client, IPAddress, configured, resolved>>

GetURL ==
    /\ Ready
    /\ call' = [NoCall("GetURL") EXCEPT !.val = GetURLResult(IPAddress).val,
                                        !.err = GetURLResult(IPAddress).err]
    /\ UNCHANGED <<driver, configured, resolved>>

GetIP ==
    /\ Ready
    /\ call' = [NoCall("GetIP") EXCEPT !.val = GetIPResult(IPAddress).val,
                                       !.err = GetIPResult(IPAddress).err]
    /\ UNCHANGED <<driver, configured, resolved>>

GetState ==
    /\ Ready
    /\ call' = [NoCall("GetState") EXCEPT !.val = <<"Running">>]
    /\ UNCHANGED <<driver, configured, resolved>>

Start ==
    /\ Ready
    /\ call' = NoCall("Start")
    /\ UNCHANGED <<driver, configured, resolved>>

Stop ==
    /\ Ready
    /\ call' = NoCall("Stop")
    /\ UNCHANGED <<driver, configured, resolved>>

Remove ==
    /\ Ready
    /\ call' = NoCall("Remove")
    /\ UNCHANGED <<driver, configured, resolved>>

Restart ==
    /\ Ready
    /\ call' = NoCall("Restart")
    /\ UNCHANGED <<driver, configured, resolved>>

Kill ==
    /\ Ready
    /\ call' = NoCall("Kill")
    /\ UNCHANGED <<driver, configured, resolved>>

\* The caller takes the result; the driver is ready for the next call.
Return ==
    /\ ~Ready
    /\ call' = NoCall("")
    /\ UNCHANGED <<driver, configured, resolved>>

Next ==
    \/ SetConfigFromFlags
    \/ PreCreateCheck
    \/ Create
    \/ GetSSHHostname
    \/ GetSSHUsername
    \/ GetURL
    \/ GetIP
    \/ GetState
    \/ Start
    \/ Stop
    \/ Remove
    \/ Restart
    \/ Kill
    \/ Return

Spec == Init /\ [][Next]_vars

---------------------------------------------------------------------------
(* Properties.  `call' describes the call that has just returned, so a      *)
(* property of Create is an invariant of the states with call.op = "Create" *)
(* and a frame property is a property of the steps with call'.op set.       *)

Last(s) == s[Len(s)]

AfterCreate == call.op = "Create"

\* Every dial of the last Create failed.
NoneConnected == \A i \in 1..Len(call.results) : ~call.results[i]

\* The last Create dialled a candidate that connected.
SomeConnected == call.results # <<>> /\ Last(call.results)

\* The last Create ran a remote command that failed.
CommandFailed == call.cmdErrs # <<>> /\ Last(call.cmdErrs) # Nil

\* C1: whenever Create finds candidates and none of them connects, it has
\* dialled every candidate in list order, returns the unreachable error, and
\* has neither generated a key nor run a remote command.  It fails on a
\* driver that still holds the IP of an earlier Create.
C1_AllUnreachableFails ==
    (AfterCreate /\ call.lookedUp /\ call.ipAddSlice # <<>> /\ NoneConnected)
    => /\ call.probed = [i \in 1..Len(call.ipAddSlice) |-> <<call.ipAddSlice[i], SSHPort>>]
       /\ call.err = ErrUnreachable
       /\ ~call.keygen
       /\ call.cmds = <<>>

\* C2: Create dials the candidates one after the other in list order, at
\* ip:SSHPort; it stops dialling at the first candidate that connects and
\* only then; and that candidate is the resolved IP.
C2_FirstReachableWins ==
    AfterCreate =>
        LET n == Len(call.results)
        IN /\ Len(call.probed) = n
           /\ n <= Len(call.ipAddSlice)
           /\ \A i \in 1..n : call.probed[i] = <<call.ipAddSlice[i], SSHPort>>
           /\ \A i \in 1..(n - 1) : ~call.results[i]
           /\ n < Len(call.ipAddSlice) => SomeConnected
           /\ SomeConnected => IPAddress = call.ipAddSlice[n]

\* C2's case: of three candidates the first fails and the second connects;
\* the second is selected and the third is not dialled.
C2_Witness ==
    /\ AfterCreate
    /\ Len(call.ipAddSlice) = 3
    /\ call.results = <<FALSE, TRUE>>
    /\ IPAddress = call.ipAddSlice[2]
    /\ call.ipAddSlice[2] # call.ipAddSlice[1]

\* C3: when the lookup answers with a payload in which no record has an
\* ipAddress, Create returns the no-addresses error; when the lookup fails,
\* Create returns the lookup's error; in both cases nothing is dialled, no key
\* is generated and no remote command is run.
C3_NoCandidatesNoProbe ==
    AfterCreate =>
        /\ (call.lookedUp /\ call.withIP = 0)
           => /\ call.err = ErrNoAddresses
              /\ call.probed = <<>> /\ ~call.keygen /\ call.cmds = <<>>
        /\ ~call.lookedUp
           => /\ call.err = LookupErr
              /\ call.probed = <<>> /\ ~call.keygen /\ call.cmds = <<>>

\* C3's case: the lookup answered, no record had an address, and Create
\* failed without dialling although the driver holds an IP it could have used.
C3_Witness ==
    /\ AfterCreate
    /\ call.lookedUp
    /\ call.withIP = 0
    /\ call.err = ErrNoAddresses
    /\ call.probed = <<>>
    /\ IPAddress # ""

\* C4: the remote commands Create runs are a prefix of mkdir .ssh, write
\* authorized_keys, chmod 700 .ssh, chmod 600 authorized_keys, in that order;
\* every command but the last one run has succeeded; a failed command is the
\* last one run and its error is what Create returns; Create returns nil only
\* after all four have run.
C4_CommandsInOrder ==
    AfterCreate =>
        LET n == Len(call.cmds)
            user == Str(SSHUser)
            expected ==
                << <<"mkdir -p /home/">> \o user \o <<"/.ssh">>,
                   <<"echo '">> \o SSHKey \o <<"' > /home/">> \o user
                       \o <<"/.ssh/authorized_keys">>,
                   <<"chmod 700 /home/">> \o user \o <<"/.ssh">>,
                   <<"chmod 600 /home/">> \o user \o <<"/.ssh/authorized_keys">> >>
        IN /\ n <= 4
           /\ Len(call.cmdErrs) = n
           /\ \A k \in 1..n : call.cmds[k] = expected[k]
           /\ \A k \in 1..(n - 1) : call.cmdErrs[k] = Nil
           /\ CommandFailed => call.err = Last(call.cmdErrs)
           /\ (0 < n /\ n < 4) => CommandFailed
           /\ call.err = Nil => (n = 4 /\ ~CommandFailed)

\* C4's case: the write of authorized_keys fails; the two chmod commands are
\* not run and Create returns that failure.
C4_Witness ==
    /\ AfterCreate
    /\ Len(call.cmds) = 2
    /\ call.cmdErrs = <<Nil, SSHRunErr>>
    /\ call.err = SSHRunErr

\* Whether the text of an error holds the text of a command line.
Mentions(err, cmd) ==
    \E i \in 1..Len(err) :
        /\ i + Len(cmd) - 1 <= Len(err)
        /\ SubSeq(err, i, i + Len(cmd) - 1) = cmd

\* C5: when a remote command fails, the error Create returns names the
\* command that failed.  Create returns the error of the SSH library as it is.
C5_ErrorNamesFailedCommand ==
    (AfterCreate /\ CommandFailed) => Mentions(call.err, Last(call.cmds))

\* C6 as stated: once the resolved IP is set, no step changes it.
C6_IPSetOnce ==
    [][IPAddress # "" => IPAddress' = IPAddress]_vars

\* C6, amended: the resolved IP changes only in a Create in which a candidate
\* connects, and then to that candidate; any other call, and a Create in
\* which nothing connects, leaves it as it is.
C6_IPChangedOnlyByProbe ==
    [][IPAddress' # IPAddress
       => /\ call'.op = "Create"
          /\ call'.results # <<>>
          /\ Last(call'.results)
          /\ IPAddress' = Last(call'.probed)[1]]_vars

\* C6's case: a Create on a driver that already has an IP, in which every
\* candidate fails; the IP of the earlier Create is still there.
C6_Witness ==
    /\ AfterCreate
    /\ call.results # <<>>
    /\ NoneConnected
    /\ IPAddress # ""

\* C7: GetURL changes nothing of the driver; with the IP set it returns
\* tcp://<IPAddress>:2376 and no error, with the IP unset it returns the empty
\* string and the error "IP address is not set".
C7_GetURL ==
    [][call'.op = "GetURL"
       => /\ driver' = driver
          /\ IPAddress # "" => /\ call'.val = <<"tcp://", IPAddress, ":2376">>
                               /\ call'.err = Nil
          /\ IPAddress = "" => /\ call'.val = <<>>
                               /\ call'.err = <<"IP address is not set">>]_vars

\* C7's case: GetURL on a driver resolved to 10.0.0.5.
C7_Witness ==
    /\ call.op = "GetURL"
    /\ IPAddress = "10.0.0.5"
    /\ call.val = <<"tcp://", "10.0.0.5", ":2376">>
    /\ call.err = Nil

\* C8: after SetConfigFromFlags has returned nil, the transport is "https" if
\* the port flag is 443 and the transport flag otherwise.
C8_Port443ForcesHTTPS ==
    (call.op = "SetConfigFromFlags" /\ call.err = Nil)
    => /\ SSHPort = call.flags.sshPort
       /\ call.flags.sshPort = 443 => Transport = "https"
       /\ call.flags.sshPort # 443 => Transport = call.flags.transport

\* C8's case: port 443 with the transport flag "http".
C8_Witness ==
    /\ call.op = "SetConfigFromFlags"
    /\ call.err = Nil
    /\ call.flags.sshPort = 443
    /\ call.flags.transport = "http"
    /\ Transport = "https"

\* The calls C9 names.
ReadingCalls ==
    {"Create", "GetSSHUsername", "GetSSHHostname", "GetIP", "GetURL", "GetState",
     "Start", "Stop", "Remove", "Restart", "Kill"}

\* C9 as stated: once configured, none of these calls changes a configuration
\* field.
C9_ConfigNeverChanges ==
    [][(configured /\ call'.op \in ReadingCalls) => config' = config]_vars

\* C9, amended: once configured, these calls leave endpoint, node identifier,
\* password, port and transport alone; the key field changes only in a Create
\* whose key generation succeeded, to the trimmed public key; the user
\* changes only in GetSSHUsername, from empty to "root".
C9_ConfigFrame ==
    [][(configured /\ call'.op \in ReadingCalls)
       => /\ <<Endpoint, NodeID, SSHPassword, SSHPort, Transport>>'
               = <<Endpoint, NodeID, SSHPassword, SSHPort, Transport>>
          /\ SSHKey' # SSHKey
             => /\ call'.op = "Create"
                /\ call'.keygen
                /\ call'.err \notin {GenerateKeyErr, ReadFileErr}
                /\ SSHKey' = <<"ssh-rsa AAAAB3Nza">>
          /\ SSHUser' # SSHUser
             => /\ call'.op = "GetSSHUsername"
                /\ SSHUser = ""
                /\ SSHUser' = "root"]_vars

\* C9's case: a configured driver whose Create stored the key and then failed
\* at a remote command.
C9_Witness ==
    /\ configured
    /\ AfterCreate
    /\ SSHKey = <<"ssh-rsa AAAAB3Nza">>
    /\ CommandFailed

\* C10: a set IP is the candidate that connected in the latest Create in which
\* one did; and a Create that fails at key generation or at a remote command
\* leaves the IP set, to the candidate it selected.
C10_IPIsLastSelected ==
    /\ IPAddress # "" => IPAddress = resolved
    /\ (AfterCreate /\ call.keygen /\ call.err # Nil)
       => /\ IPAddress # ""
          /\ SomeConnected => IPAddress = Last(call.probed)[1]

\* C10's case: Create selected a candidate, failed at key generation, and the
\* IP is set.
C10_Witness ==
    /\ AfterCreate
    /\ SomeConnected
    /\ call.err = GenerateKeyErr
    /\ IPAddress = Last(call.probed)[1]
    /\ IPAddress # ""

====
